---- MODULE Spec2Model ----
(***************************************************************************)
(* Model of the knowledge consolidation and synthesis engine of            *)
(* knowledge_base: recursive community summarization (summarizer.py),      *)
(* entity resolution (resolver.py), the shared HTTP client                 *)
(* (http_client.py), the ingestion batch loop (pipeline.py) and the        *)
(* circuit breaker (circuit_breaker.py).                                   *)
(***************************************************************************)
EXTENDS Integers, Sequences, FiniteSets, TLC

\* ------------------------------------------------------------------------
\* Bounds of the model
\* ------------------------------------------------------------------------
NumComms == 3
TopLevel == 2
MaxMembers == 1
NumProcs == 2
MaxBatch == 3
MaxRaceBatch == 1
MaxStore == 7
NumCallers == 2
MaxRequests == 4
MaxTime == 3
MaxThreshold == 2
MaxTimeout == 2
MaxHalfOpen == 2
MaxGraphNodes == 3
MaxClusters == 2
MaxOldComms == 2
MaxNameLen == 2
NumTexts == 5
MaxCacheSize == 5

\* ------------------------------------------------------------------------
\* Program constants
\* ------------------------------------------------------------------------
MAX_RETRIES == 2
\* HTTPClient.RETRY_DELAY, in seconds
RETRY_DELAY == 3
CANDIDATE_LIMIT == 5
\* find_candidates: threshold = 0.70, similarities are counted in hundredths
THRESHOLD == 70

PendingSummary == "Pending Summarization"
PlaceholderTitle == "Community"

NoComm == 0
CommIds == 1..NumComms
Levels == 0..TopLevel
Procs == 1..NumProcs

\* ------------------------------------------------------------------------
\* HTTPClient.chat_completion
\* ------------------------------------------------------------------------
AttemptOutcomes == {"ok", "timeout", "error", "not_supported"}

AttemptSeqs == [1..MAX_RETRIES -> AttemptOutcomes]

\* The retry loop: attempt is the 0-based loop variable, outcomes[attempt+1]
\* is what the POST of that attempt does.  The result is "response" (the
\* JSON body is returned), "error_dict" ({"error": ...} is returned), "none"
\* (the loop ran out, None is returned) or "raise" (the exception of the
\* last attempt is re-raised).
RECURSIVE chat_completion_from(_, _)
chat_completion_from(attempt, outcomes) ==
    IF attempt >= MAX_RETRIES THEN "none"
    ELSE IF outcomes[attempt + 1] = "ok" THEN "response"
    ELSE IF outcomes[attempt + 1] = "timeout"
         THEN chat_completion_from(attempt + 1, outcomes)
    ELSE IF outcomes[attempt + 1] = "not_supported" THEN "error_dict"
    ELSE IF attempt < MAX_RETRIES - 1
         THEN chat_completion_from(attempt + 1, outcomes)
         ELSE "raise"

chat_completion(outcomes) == chat_completion_from(0, outcomes)

\* Shapes of a JSON body returned by the reasoning service.
ResponseShapes ==
    {"no_choices", "empty_choices", "no_tool_calls", "json_content",
     "wrong_tool", "bad_arguments", "valid"}

\* ------------------------------------------------------------------------
\* Names: a name is a sequence of one-character strings
\* ------------------------------------------------------------------------
UpperChars ==
    << "A", "B", "C", "D", "E", "F", "G", "H", "I", "J", "K", "L", "M",
       "N", "O", "P", "Q", "R", "S", "T", "U", "V", "W", "X", "Y", "Z" >>
LowerChars ==
    << "a", "b", "c", "d", "e", "f", "g", "h", "i", "j", "k", "l", "m",
       "n", "o", "p", "q", "r", "s", "t", "u", "v", "w", "x", "y", "z" >>

\* str.lower() on one character
LowerChar(c) ==
    IF \E i \in 1..Len(UpperChars) : UpperChars[i] = c
    THEN LowerChars[CHOOSE i \in 1..Len(UpperChars) : UpperChars[i] = c]
    ELSE c

\* str.lower()
Lower(s) == [i \in 1..Len(s) |-> LowerChar(s[i])]

\* \s of the re module
IsSpace(c) == c \in {" ", "\t", "\n"}

\* \w of the re module, for the characters that occur in names
IsWordChar(c) ==
    ~ IsSpace(c) /\ c \notin {".", "(", ")", "'", "\"", "-", ","}

\* \b at position i (between s[i-1] and s[i])
WordBoundary(s, i) ==
    LET before == i > 1 /\ i - 1 <= Len(s) /\ IsWordChar(s[i - 1])
        after == i >= 1 /\ i <= Len(s) /\ IsWordChar(s[i])
    IN before # after

\* The alternatives of the title pattern, in the order of the regular
\* expression (Dr\.?|Director|Prof\.?|Mr\.?|Ms\.?|Mrs\.?): the letters in
\* lower case and whether an optional dot follows.
TitlePatterns ==
    << [word |-> <<"d", "r">>, dot |-> TRUE],
       [word |-> <<"d", "i", "r", "e", "c", "t", "o", "r">>, dot |-> FALSE],
       [word |-> <<"p", "r", "o", "f">>, dot |-> TRUE],
       [word |-> <<"m", "r">>, dot |-> TRUE],
       [word |-> <<"m", "s">>, dot |-> TRUE],
       [word |-> <<"m", "r", "s">>, dot |-> TRUE] >>

\* The letters of w occur at position i of s, ignoring case
WordAt(s, i, w) ==
    /\ i + Len(w) - 1 <= Len(s)
    /\ \A k \in 1..Len(w) : LowerChar(s[i + k - 1]) = w[k]

\* Number of characters alternative t consumes at position i (0: no match)
PatternLen(s, i, t) ==
    IF ~ WordAt(s, i, t.word) THEN 0
    ELSE IF t.dot /\ i + Len(t.word) <= Len(s) /\ s[i + Len(t.word)] = "."
         THEN Len(t.word) + 1
         ELSE Len(t.word)

\* Length of the title matched at position i: the first alternative that
\* matches wins (0: none matches or there is no word boundary)
TitleLen(s, i) ==
    IF ~ WordBoundary(s, i) THEN 0
    ELSE IF \E k \in 1..Len(TitlePatterns) : PatternLen(s, i, TitlePatterns[k]) > 0
         THEN PatternLen(s, i, TitlePatterns[
                  CHOOSE k \in 1..Len(TitlePatterns) :
                      /\ PatternLen(s, i, TitlePatterns[k]) > 0
                      /\ \A j \in 1..(k - 1) :
                            PatternLen(s, i, TitlePatterns[j]) = 0])
         ELSE 0

\* First position >= i that holds no white space (\s* is greedy)
RECURSIVE SkipSpaces(_, _)
SkipSpaces(s, i) ==
    IF i <= Len(s) /\ IsSpace(s[i]) THEN SkipSpaces(s, i + 1) ELSE i

\* re.sub(r"\b(Dr\.?|...)\s*", "", name, flags=re.IGNORECASE), from position i
RECURSIVE StripTitlesFrom(_, _)
StripTitlesFrom(s, i) ==
    IF i > Len(s) THEN <<>>
    ELSE IF TitleLen(s, i) > 0
         THEN StripTitlesFrom(s, SkipSpaces(s, i + TitleLen(s, i)))
         ELSE <<s[i]>> \o StripTitlesFrom(s, i + 1)

StripTitles(s) == StripTitlesFrom(s, 1)

\* re.sub(r"\([^)]*\)", "", s), from position i
RECURSIVE StripParensFrom(_, _)
StripParensFrom(s, i) ==
    IF i > Len(s) THEN <<>>
    ELSE IF s[i] = "(" /\ \E j \in (i + 1)..Len(s) : s[j] = ")"
         THEN StripParensFrom(s,
                  1 + CHOOSE j \in (i + 1)..Len(s) :
                          /\ s[j] = ")"
                          /\ \A k \in (i + 1)..(j - 1) : s[k] # ")")
         ELSE <<s[i]>> \o StripParensFrom(s, i + 1)

StripParens(s) == StripParensFrom(s, 1)

\* str.strip()
RECURSIVE Strip(_)
Strip(s) ==
    IF s = <<>> THEN <<>>
    ELSE IF IsSpace(s[1]) THEN Strip(Tail(s))
    ELSE IF IsSpace(s[Len(s)]) THEN Strip(SubSeq(s, 1, Len(s) - 1))
    ELSE s

\* re.sub(r"\s+", " ", s), from position i
RECURSIVE CollapseSpacesFrom(_, _)
CollapseSpacesFrom(s, i) ==
    IF i > Len(s) THEN <<>>
    ELSE IF IsSpace(s[i])
         THEN <<" ">> \o CollapseSpacesFrom(s, SkipSpaces(s, i))
         ELSE <<s[i]>> \o CollapseSpacesFrom(s, i + 1)

CollapseSpaces(s) == CollapseSpacesFrom(s, 1)

\* s.replace("'", "").replace('"', "")
RemoveQuotes(s) == SelectSeq(s, LAMBDA c : c \notin {"'", "\""})

\* EntityResolver._normalize_name
NormalizeName(name) ==
    Lower(RemoveQuotes(CollapseSpaces(Strip(StripParens(StripTitles(name))))))

\* ------------------------------------------------------------------------
\* State
\* ------------------------------------------------------------------------
VARIABLES
    communities,   \* communities table: id -> row
    hierarchy,     \* community_hierarchy table: set of <<parent_id, child_id>>
    members,       \* community_membership: id -> number of member nodes
    s_pc,          \* position of the summarize_all run
    max_level,     \* summarize_all: max_level
    level,         \* summarize_all: loop variable
    todo,          \* _process_level: communities fetched and not yet visited
    comm_id,       \* _summarize_community: community_id
    context,       \* _summarize_community: context_text, as a list of lines
    report,        \* _summarize_community: the parsed CommunityReport
    response,      \* _summarize_community: the form of the response received
    outcome,       \* per community: how its _summarize_community call ended
    nodes,         \* nodes table (committed rows): id -> row
    next_id,       \* the next id the nodes table generates
    batch,         \* per _store_graph run: graph.entities with embeddings
    r_pc,          \* per _store_graph run: its position
    domain_id,     \* per run: domain_id
    entity,        \* per run: the entity being resolved, with its embedding
    candidates,    \* per run: resolve_and_insert: candidates
    cand_idx,      \* per run: position of the for loop over candidates
    decision,      \* per run: the decision judge_pair returned last
    pending,       \* per run: the write of _insert_entity before its commit
    judged,        \* per run: the pairs judge_pair decided in this call
    calls          \* per run: the resolve_and_insert calls that have ended

s_vars == <<communities, hierarchy, members, s_pc, max_level, level, todo,
            comm_id, context, report, response, outcome>>

r_vars == <<nodes, next_id, batch, r_pc, domain_id, entity, candidates, cand_idx,
            decision, pending, judged, calls>>

VARIABLES
    breaker,       \* the CircuitBreaker object: its fields
    now,           \* time.time()
    c_pc,          \* per caller of CircuitBreaker.call: its position or outcome
    consecutive,   \* failed calls recorded since the last recorded success
    admitted,      \* calls passed to the function since HALF_OPEN was entered
    trial_failures \* failed calls recorded since HALF_OPEN was entered

b_vars == <<breaker, now, c_pc, consecutive, admitted, trial_failures>>

VARIABLES
    g_nodes,         \* the graph load_graph returned: its nodes, in order
    memberships,     \* the clustering result: {node_id, level, cluster_id} records
    membership_rows, \* community_membership table: set of <<community_id, node_id>>
    cluster_map,     \* save_communities: community id -> cluster id
    old_comms,       \* the ids of the communities rows before the run
    d_pc             \* position of the detection run

d_vars == <<g_nodes, memberships, membership_rows, cluster_map, old_comms, d_pc>>

VARIABLES
    p_pc,          \* KnowledgePipeline.run: its position
    running,       \* run: the stage that has been called and has not ended
    events,        \* run: the calls and returns of the stages so far
    readable,      \* run: whether open(file_path) succeeds
    domain_given,  \* run: whether domain_id was passed
    schema,        \* run: whether the schema of a detected domain goes to extract
    num_nodes      \* run: G.number_of_nodes() of the graph load_graph returns

p_vars == <<p_pc, running, events, readable, domain_given, schema, num_nodes>>

VARIABLES
    n_title,       \* a title put in front of a name
    n_name,        \* a name
    n_keys,        \* _normalize_name of the titled and of the plain name
    n_pc           \* whether the keys have been computed

n_vars == <<n_title, n_name, n_keys, n_pc>>

VARIABLES
    h_outcomes,    \* chat_completion: what the POST of each attempt does
    h_stream,      \* chat_completion: the stream argument
    h_attempt,     \* chat_completion: the loop variable
    h_posts,       \* chat_completion: requests sent so far
    h_slept,       \* chat_completion: seconds slept between attempts
    h_pc           \* chat_completion: its position, or how it ended

h_vars == <<h_outcomes, h_stream, h_attempt, h_posts, h_slept, h_pc>>

VARIABLES
    cache,         \* EmbeddingCache._cache: its keys, in insertion order
    max_size,      \* EmbeddingCache._max_size
    last_get       \* what the last get returned

e_vars == <<cache, max_size, last_get>>

aux_vars == <<d_vars, p_vars, n_vars, h_vars, e_vars>>

vars == <<s_vars, r_vars, b_vars, aux_vars>>

\* ------------------------------------------------------------------------
\* Circuit breaker: the object
\* ------------------------------------------------------------------------
Callers == 1..NumCallers

\* last_failure_time is None
NoTime == -1

\* CircuitBreaker.__init__
NewBreaker(threshold, timeout, attempts) ==
    [failure_threshold |-> threshold,
     recovery_timeout |-> timeout,
     half_open_max_attempts |-> attempts,
     state |-> "CLOSED",
     failure_count |-> 0,
     last_failure_time |-> NoTime,
     half_open_attempts |-> 0,
     total_requests |-> 0,
     failed_requests |-> 0,
     successful_requests |-> 0]

\* No detection run exists.
DetectorUnused ==
    /\ g_nodes = <<>>
    /\ memberships = <<>>
    /\ membership_rows = {}
    /\ cluster_map = <<>>
    /\ old_comms = {}
    /\ d_pc = "saved"

\* No pipeline run exists.
PipelineUnused ==
    /\ p_pc = "done"
    /\ running = "none"
    /\ events = <<>>
    /\ readable = TRUE
    /\ domain_given = TRUE
    /\ schema = FALSE
    /\ num_nodes = 0

\* No name is being normalized.
NormalizerUnused ==
    /\ n_title = <<>>
    /\ n_name = <<>>
    /\ n_keys = <<>>
    /\ n_pc = "idle"

\* No chat_completion call is under way.
HttpUnused ==
    /\ h_outcomes = <<>>
    /\ h_stream = FALSE
    /\ h_attempt = 0
    /\ h_posts = 0
    /\ h_slept = 0
    /\ h_pc = "idle"

\* The embedding cache is not used.
CacheUnused ==
    /\ cache = <<>>
    /\ max_size = 10000
    /\ last_get = "none"

AuxUnused ==
    /\ DetectorUnused
    /\ PipelineUnused
    /\ NormalizerUnused
    /\ HttpUnused
    /\ CacheUnused

\* No call goes through a circuit breaker.
BreakerUnused ==
    /\ breaker = NewBreaker(5, 60, 3)
    /\ now = 0
    /\ c_pc = [p \in Callers |-> "idle"]
    /\ consecutive = 0
    /\ admitted = 0
    /\ trial_failures = 0

\* ------------------------------------------------------------------------
\* Resolver: data
\* ------------------------------------------------------------------------
Al == <<"A", "l">>
al == <<"a", "l">>
DrAl == <<"D", "r", ".", " ", "A", "l">>
Bo == <<"B", "o">>

Embeddings == {"e1", "e2", "e3"}

\* 1 - (embedding <=> target), in hundredths
Similarity(a, b) ==
    IF a = b THEN 100
    ELSE IF {a, b} = {"e1", "e2"} THEN 85
    ELSE IF {a, b} = {"e1", "e3"} THEN 70
    ELSE 40

Domains == {"d1", "d2"}

\* The observed entities handed to resolve_and_insert, each with the
\* embedding the caller computed for it
ObservedEntities ==
    { [name |-> Al, type |-> "Person", description |-> "x", embedding |-> "e1"],
      [name |-> al, type |-> "Person", description |-> "y", embedding |-> "e2"],
      [name |-> DrAl, type |-> "Person", description |-> "x", embedding |-> "e2"],
      [name |-> Al, type |-> "Org", description |-> "x", embedding |-> "e1"],
      [name |-> Bo, type |-> "Person", description |-> "x", embedding |-> "e2"],
      [name |-> Al, type |-> "Person", description |-> "y", embedding |-> "e3"] }

\* The entities of concurrent runs: two of one key that are no candidates of
\* each other, and one of another key
RaceEntities ==
    {e \in ObservedEntities :
        e.name = Al /\ e.embedding \in {"e1", "e3"}}

NoEntity == [name |-> <<>>, type |-> "", description |-> "", embedding |-> "e1"]

\* A row of the nodes table for entity e in domain d
NodeRow(e, d) ==
    [name |-> e.name, type |-> e.type, description |-> e.description,
     embedding |-> e.embedding, domain_id |-> d]

NoWrite == [kind |-> "none", id |-> 0, row |-> NodeRow(NoEntity, "d1")]

\* ------------------------------------------------------------------------
\* Summarizer: helpers
\* ------------------------------------------------------------------------
ReportSummaries == {"S1", "S2"}

Reports == [title : {"T1"}, summary : ReportSummaries]

NoReport == [title |-> "", summary |-> ""]

PendingRow(l) ==
    [level |-> l, title |-> PlaceholderTitle, summary |-> PendingSummary,
     full_content |-> NoReport, embedding |-> <<>>]

MaxOf(S) == CHOOSE x \in S : \A y \in S : y <= x

\* SELECT MAX(level) FROM communities, None replaced by 0
SelectMaxLevel ==
    IF DOMAIN communities = {} THEN 0
    ELSE MaxOf({communities[c].level : c \in DOMAIN communities})

\* SELECT id, title FROM communities WHERE level = %s
CommunitiesAtLevelOrAbove(l) ==
    {c \in DOMAIN communities : communities[c].level >= l}

CommunitiesAtLevel(l) ==
    {c \in DOMAIN communities : communities[c].level = l}

\* SELECT ... FROM community_hierarchy ch JOIN communities c
\*   ON ch.child_id = c.id WHERE ch.parent_id = %s
Children(p) ==
    {c \in DOMAIN communities : <<p, c>> \in hierarchy}

\* All orders in which a query without ORDER BY may return a set of rows.
RECURSIVE Orderings(_)
Orderings(S) ==
    IF S = {} THEN {<<>>}
    ELSE UNION {{<<x>> \o t : t \in Orderings(S \ {x})} : x \in S}

RECURSIVE ChildLines(_)
ChildLines(q) ==
    IF q = <<>> THEN <<>>
    ELSE <<[kind |-> "child", title |-> communities[Head(q)].title,
            summary |-> communities[Head(q)].summary]>> \o ChildLines(Tail(q))

RECURSIVE MemberLines(_)
MemberLines(n) ==
    IF n = 0 THEN <<>>
    ELSE <<[kind |-> "entity", title |-> "", summary |-> ""]>>
         \o MemberLines(n - 1)

\* _gather_context: the list `context` for one order of the child rows.
ContextLines(c, l, q) ==
    IF l = 0
    THEN <<[kind |-> "header", title |-> "### Member Entities:", summary |-> ""]>>
         \o MemberLines(members[c])
         \o <<[kind |-> "header", title |-> "### Internal Relationships:",
               summary |-> ""]>>
    ELSE <<[kind |-> "header", title |-> "### Sub-Communities (Children):",
            summary |-> ""]>>
         \o ChildLines(q)

\* `not context_text` for context_text = "\n".join(context): the joined text
\* is empty only for no line at all, or for a single empty line.
ContextIsEmpty(lines) ==
    \/ Len(lines) = 0
    \/ Len(lines) = 1 /\ lines[1].title = "" /\ lines[1].kind = "header"

\* _get_embedding(f"{report.title} {report.summary}"): the vector of a text,
\* kept as the text it was computed from
_get_embedding(title, summary) == <<title, " ", summary>>

\* UPDATE communities SET title, summary, full_content, embedding WHERE id
SavedRowKeepSummary(row, rep) ==
    [row EXCEPT !.title = rep.title, !.full_content = rep,
                !.embedding = _get_embedding(rep.title, rep.summary)]

SavedRow(row, rep) ==
    [row EXCEPT !.title = rep.title, !.summary = rep.summary,
                !.full_content = rep,
                !.embedding = _get_embedding(rep.title, rep.summary)]

\* Lines 183-206 of _summarize_community: what becomes of the value returned
\* (or the exception raised) by chat_completion.  Every exception is caught
\* by the enclosing try.
ReportResult(r, shape) ==
    IF r = "response" /\ shape = "valid" THEN "parsed" ELSE "failed"

\* The form in which the answer carries a report: as the arguments of the
\* expected tool call, as a JSON object in the message text, or not at all
ResponseForm(r, shape) ==
    IF r # "response" THEN "unusable"
    ELSE IF shape = "valid" THEN "tool_call"
    ELSE IF shape = "json_content" THEN "json_text"
    ELSE "unusable"

\* What the answer can come to, over all behaviours of the reasoning service
ReportResults ==
    {[form |-> ResponseForm(chat_completion(outcomes), shape),
      result |-> ReportResult(chat_completion(outcomes), shape)] :
        outcomes \in AttemptSeqs, shape \in ResponseShapes}

Uncaught == "raised"

\* Lines 211-212, and the return None of lines 184-206: the failure is logged
\* and _summarize_community returns to the loop of _process_level
Caught == "community"

\* ------------------------------------------------------------------------
\* Summarizer: state after CommunityPersister has rebuilt the tables
\* ------------------------------------------------------------------------
HierarchyShapes(lv) ==
    {h \in SUBSET ((DOMAIN lv) \X (DOMAIN lv)) :
        /\ \A e \in h : lv[e[1]] = lv[e[2]] + 1
        /\ \A e, f \in h : e[2] = f[2] => e[1] = f[1]}

\* The levels of the rows ids; the ids are arbitrary labels, so they are
\* numbered in the order of their levels
LevelAssignments(ids) ==
    {lv \in [ids -> Levels] : \A c, d \in ids : c < d => lv[c] <= lv[d]}

\* No _store_graph run exists.
ResolverUnused ==
    /\ nodes = <<>>
    /\ next_id = 1
    /\ batch = [p \in Procs |-> <<>>]
    /\ r_pc = [p \in Procs |-> "stored"]
    /\ domain_id = [p \in Procs |-> "d1"]
    /\ entity = [p \in Procs |-> NoEntity]
    /\ candidates = [p \in Procs |-> <<>>]
    /\ cand_idx = [p \in Procs |-> 0]
    /\ decision = [p \in Procs |-> "none"]
    /\ pending = [p \in Procs |-> NoWrite]
    /\ judged = [p \in Procs |-> <<>>]
    /\ calls = [p \in Procs |-> <<>>]

InitSummarizer ==
    /\ \E n \in 0..NumComms : \E lv \in LevelAssignments(1..n) :
          /\ communities = [c \in 1..n |-> PendingRow(lv[c])]
          /\ hierarchy \in HierarchyShapes(lv)
          /\ members \in [1..n -> 0..MaxMembers]
    /\ s_pc = "start"
    /\ max_level = 0
    /\ level = 0
    /\ todo = <<>>
    /\ comm_id = NoComm
    /\ context = <<>>
    /\ report = NoReport
    /\ response = "none"
    /\ outcome = [c \in CommIds |-> "none"]
    /\ ResolverUnused
    /\ BreakerUnused
    /\ AuxUnused

\* ------------------------------------------------------------------------
\* Summarizer: actions
\* ------------------------------------------------------------------------
\* summarize_all, lines 64-68: read the maximum level
SummarizeAllStart ==
    /\ s_pc = "start"
    /\ \E db_ok \in BOOLEAN :
          IF db_ok
          THEN /\ max_level' = SelectMaxLevel
               /\ level' = 0
               /\ s_pc' = "level"
          ELSE /\ s_pc' = "raised"
               /\ UNCHANGED <<max_level, level>>
    /\ UNCHANGED <<communities, hierarchy, members, todo, comm_id, context,
                   report, outcome>>
    /\ UNCHANGED <<r_vars, b_vars, aux_vars, response>>

\* summarize_all line 76 and _process_level lines 84-91: enter the next
\* level of range(max_level + 1) and fetch its communities
ProcessLevel ==
    /\ s_pc = "level"
    /\ level <= max_level
    /\ \E db_ok \in BOOLEAN :
          IF db_ok
          THEN /\ todo' \in Orderings(CommunitiesAtLevel(level))
               /\ s_pc' = "community"
          ELSE /\ s_pc' = "raised"
               /\ UNCHANGED todo
    /\ UNCHANGED <<communities, hierarchy, members, max_level, level, comm_id,
                   context, report, outcome>>
    /\ UNCHANGED <<r_vars, b_vars, aux_vars, response>>

\* summarize_all line 76: range(max_level + 1) is exhausted
SummarizeAllDone ==
    /\ s_pc = "level"
    /\ level > max_level
    /\ s_pc' = "done"
    /\ UNCHANGED <<communities, hierarchy, members, max_level, level, todo,
                   comm_id, context, report, outcome>>
    /\ UNCHANGED <<r_vars, b_vars, aux_vars, response>>

\* _process_level lines 93-94: take the next fetched community
NextCommunity ==
    /\ s_pc = "community"
    /\ todo # <<>>
    /\ comm_id' = Head(todo)
    /\ todo' = Tail(todo)
    /\ s_pc' = "gather"
    /\ response' = "none"
    /\ UNCHANGED <<communities, hierarchy, members, max_level, level, context,
                   report, outcome>>
    /\ UNCHANGED <<r_vars, b_vars, aux_vars>>

\* _process_level returns to summarize_all, which steps the level
LevelDone ==
    /\ s_pc = "community"
    /\ todo = <<>>
    /\ level' = level + 1
    /\ s_pc' = "level"
    /\ UNCHANGED <<communities, hierarchy, members, max_level, todo, comm_id,
                   context, report, outcome>>
    /\ UNCHANGED <<r_vars, b_vars, aux_vars, response>>

\* _summarize_community lines 100-108: gather the context, skip when empty,
\* otherwise start generating the report
GatherContext ==
    /\ s_pc = "gather"
    /\ \E db_ok \in BOOLEAN :
          IF db_ok
          THEN \E q \in Orderings(Children(comm_id)) :
                  LET lines == ContextLines(comm_id, level, q) IN
                  /\ context' = lines
                  /\ IF ContextIsEmpty(lines)
                     THEN /\ outcome' = [outcome EXCEPT ![comm_id] = "skipped"]
                          /\ s_pc' = "community"
                     ELSE /\ outcome' = [outcome EXCEPT ![comm_id] = "started"]
                          /\ s_pc' = "generating"
          ELSE /\ s_pc' = "raised"
               /\ UNCHANGED <<context, outcome>>
    /\ UNCHANGED <<communities, hierarchy, members, max_level, level, todo,
                   comm_id, report>>
    /\ UNCHANGED <<r_vars, b_vars, aux_vars, response>>

\* _summarize_community lines 182-206: the reasoning service answers
ChatResponse ==
    /\ s_pc = "generating"
    /\ \E res \in ReportResults, rep \in Reports :
          /\ response' = res.form
          /\ IF res.result = "parsed"
             THEN /\ report' = rep
                  /\ s_pc' = "saving"
                  /\ UNCHANGED outcome
             ELSE /\ outcome' = [outcome EXCEPT ![comm_id] = "failed"]
                  /\ s_pc' = Caught
                  /\ UNCHANGED report
    /\ UNCHANGED <<communities, hierarchy, members, max_level, level, todo,
                   comm_id, context>>
    /\ UNCHANGED <<r_vars, b_vars, aux_vars>>

\* _save_report: embed title and summary, then UPDATE the row; an exception
\* of either step is caught by the try of _summarize_community
SaveReport ==
    /\ s_pc = "saving"
    /\ \E embed_ok \in BOOLEAN, db_ok \in BOOLEAN :
          IF embed_ok /\ db_ok
          THEN /\ communities' =
                    [communities EXCEPT ![comm_id] = SavedRow(@, report)]
               /\ outcome' = [outcome EXCEPT ![comm_id] = "saved"]
               /\ s_pc' = "community"
          ELSE /\ outcome' = [outcome EXCEPT ![comm_id] = "failed"]
               /\ s_pc' = Caught
               /\ UNCHANGED communities
    /\ UNCHANGED <<hierarchy, members, max_level, level, todo, comm_id,
                   context, report>>
    /\ UNCHANGED <<r_vars, b_vars, aux_vars, response>>

NextSummarizer ==
    \/ SummarizeAllStart
    \/ ProcessLevel
    \/ SummarizeAllDone
    \/ NextCommunity
    \/ LevelDone
    \/ GatherContext
    \/ ChatResponse
    \/ SaveReport

SpecSummarizer == InitSummarizer /\ [][NextSummarizer]_vars

\* ------------------------------------------------------------------------
\* Summarizer: properties
\* ------------------------------------------------------------------------
Completed == {"saved", "skipped", "failed"}

\* The reasoning-service call for c has been issued in this run.
GenerationStarted(c) == outcome[c] \in {"started", "saved", "failed"}

\* C1: no report generation for a community at level L+1 starts until every
\* community at level L has been processed to completion (saved, skipped or
\* failed).
C1_LevelOrder ==
    \A c \in DOMAIN communities, d \in DOMAIN communities :
        (communities[d].level = communities[c].level + 1
            /\ GenerationStarted(d))
        => outcome[c] \in Completed

C1_Witness ==
    \E c \in DOMAIN communities, d \in DOMAIN communities :
        /\ communities[d].level = communities[c].level + 1
        /\ outcome[d] = "started"
        /\ outcome[c] = "failed"

AtOrAboveThreshold(ns, target, threshold) ==
    {i \in DOMAIN ns : Similarity(ns[i].embedding, target) >= threshold}

AboveThreshold(ns, target, threshold) ==
    {i \in DOMAIN ns : Similarity(ns[i].embedding, target) > threshold}

\* ORDER BY similarity DESC LIMIT k over the rows S: every order the query
\* may return (rows of equal similarity come in any order)
RECURSIVE TopRows(_, _, _, _)
TopRows(ns, S, target, k) ==
    IF k = 0 \/ S = {} THEN {<<>>}
    ELSE LET best == {i \in S : \A j \in S :
                         Similarity(ns[j].embedding, target)
                             <= Similarity(ns[i].embedding, target)}
         IN UNION {{<<i>> \o t : t \in TopRows(ns, S \ {i}, target, k - 1)} :
                       i \in best}

\* The dict find_candidates builds from one row
CandidateRow(ns, i, target) ==
    [id |-> i, name |-> ns[i].name, type |-> ns[i].type,
     description |-> ns[i].description,
     similarity |-> Similarity(ns[i].embedding, target)]

\* EntityResolver.find_candidates: the lists it may return
find_candidates(ns, target, threshold) ==
    {[j \in 1..Len(q) |-> CandidateRow(ns, q[j], target)] :
        q \in TopRows(ns, AboveThreshold(ns, target, threshold), target,
                      CANDIDATE_LIMIT)}

\* ------------------------------------------------------------------------
\* Resolver: resolve_and_insert
\* ------------------------------------------------------------------------
\* candidate["name"].lower() == entity["name"].lower()
\*   and candidate["type"] == entity["type"]
ExactMatch(c, e) == Lower(c.name) = Lower(e.name) /\ c.type = e.type

\* normalized_new == normalized_candidate
\*   and candidate["type"] == entity["type"]
NormalizedMatch(c, e) ==
    NormalizeName(e.name) = NormalizeName(c.name) /\ c.type = e.type

\* Values of the "decision" argument of a parsed tool call
DecisionArguments ==
    {"MERGE", "LINK", "KEEP_SEPARATE", "MAYBE", "missing", "not_a_string"}

\* EntityResolver.judge_pair: the decision returned for the outcome r of
\* chat_completion, the shape of the response and the decision argument;
\* "raise" when an exception leaves judge_pair.
judge_pair(r, shape, arg) ==
    IF r = "raise" THEN "raise"
    ELSE IF r # "response" THEN "KEEP_SEPARATE"
    ELSE IF shape = "no_choices" THEN "KEEP_SEPARATE"
    ELSE IF shape = "empty_choices" THEN "raise"
    ELSE IF shape \in {"no_tool_calls", "json_content", "wrong_tool",
                       "bad_arguments"}
         THEN "KEEP_SEPARATE"
    ELSE IF arg = "missing" THEN "KEEP_SEPARATE"
    ELSE IF arg = "not_a_string" THEN "KEEP_SEPARATE"
    ELSE arg

\* What judge_pair can come to, over all behaviours of the reasoning service
JudgePairResults ==
    {judge_pair(chat_completion(outcomes), shape, arg) :
        outcomes \in AttemptSeqs, shape \in ResponseShapes,
        arg \in DecisionArguments}

\* if decision.decision == "MERGE": return candidate["id"]
MergesOrLinks(d) == d \in {"MERGE", "LINK"}

Merges(d) == d = "MERGE"

\* ------------------------------------------------------------------------
\* Resolver: _insert_entity
\* ------------------------------------------------------------------------
\* The conflict target of ON CONFLICT (name, type, domain_id)
NodeKey(n) == <<n.name, n.type, n.domain_id>>

NoConflictIds(ns, row) == {}

ConflictIds(ns, row) == {i \in DOMAIN ns : NodeKey(ns[i]) = NodeKey(row)}

\* INSERT ... ON CONFLICT (name, type, domain_id) DO UPDATE SET description
\* = EXCLUDED.description RETURNING id: the write and the id it returns
UpsertWrite(ns, nid, row) ==
    IF ConflictIds(ns, row) # {}
    THEN LET i == CHOOSE i \in ConflictIds(ns, row) : TRUE IN
         [kind |-> "update", id |-> i,
          row |-> [ns[i] EXCEPT !.description = row.description]]
    ELSE [kind |-> "insert", id |-> nid, row |-> row]

\* await conn.commit(): the table with the write applied
CommitLost(ns, w) == ns

Committed(ns, w) ==
    [i \in (DOMAIN ns) \cup {w.id} |-> IF i = w.id THEN w.row ELSE ns[i]]

\* Another transaction holds an uncommitted write of the same key: the
\* INSERT waits for it to end
Blocked(p, row) ==
    \E q \in Procs \ {p} :
        pending[q].kind # "none" /\ NodeKey(pending[q].row) = NodeKey(row)

\* ------------------------------------------------------------------------
\* Resolver: initial states
\* ------------------------------------------------------------------------
ResolverLocals ==
    /\ entity = [p \in Procs |-> NoEntity]
    /\ candidates = [p \in Procs |-> <<>>]
    /\ cand_idx = [p \in Procs |-> 0]
    /\ decision = [p \in Procs |-> "none"]
    /\ pending = [p \in Procs |-> NoWrite]
    /\ judged = [p \in Procs |-> <<>>]
    /\ calls = [p \in Procs |-> <<>>]

SummarizerUnused ==
    /\ communities = <<>>
    /\ hierarchy = {}
    /\ members = <<>>
    /\ s_pc = "done"
    /\ max_level = 0
    /\ level = 0
    /\ todo = <<>>
    /\ comm_id = NoComm
    /\ context = <<>>
    /\ report = NoReport
    /\ response = "none"
    /\ outcome = [c \in CommIds |-> "none"]

\* All batches of at most n entities drawn from S
Batches(S, n) == UNION {[1..k -> S] : k \in 0..n}

\* One _store_graph run of at most MaxBatch entities against an empty store
InitResolver ==
    /\ nodes = <<>>
    /\ next_id = 1
    /\ \E b \in Batches(ObservedEntities, MaxBatch) :
          batch = [p \in Procs |-> IF p = 1 THEN b ELSE <<>>]
    /\ domain_id = [p \in Procs |-> "d1"]
    /\ r_pc = [p \in Procs |-> "next"]
    /\ ResolverLocals
    /\ SummarizerUnused
    /\ BreakerUnused
    /\ AuxUnused

\* Concurrent _store_graph runs of at most MaxRaceBatch entities each
InitRace ==
    /\ nodes = <<>>
    /\ next_id = 1
    /\ batch \in [Procs -> Batches(RaceEntities, MaxRaceBatch)]
    /\ domain_id \in [Procs -> Domains]
    /\ r_pc = [p \in Procs |-> "next"]
    /\ ResolverLocals
    /\ SummarizerUnused
    /\ BreakerUnused
    /\ AuxUnused

\* ------------------------------------------------------------------------
\* Resolver: actions of run p
\* ------------------------------------------------------------------------
\* resolve_and_insert returns id; the locals of the call are gone
Returned(p, id, via, js) ==
    /\ calls' = [calls EXCEPT ![p] = Append(@,
                    [entity |-> entity[p], candidates |-> candidates[p],
                     judged |-> js, result |-> id, via |-> via])]
    /\ r_pc' = [r_pc EXCEPT ![p] = "next"]
    /\ entity' = [entity EXCEPT ![p] = NoEntity]
    /\ candidates' = [candidates EXCEPT ![p] = <<>>]
    /\ cand_idx' = [cand_idx EXCEPT ![p] = 0]

\* _store_graph lines 182-188: the next entity of the batch and its embedding
StartEntity(p) ==
    /\ r_pc[p] = "next"
    /\ Len(calls[p]) < Len(batch[p])
    /\ \E embed_ok \in BOOLEAN :
          IF embed_ok
          THEN /\ entity' = [entity EXCEPT ![p] = batch[p][Len(calls[p]) + 1]]
               /\ r_pc' = [r_pc EXCEPT ![p] = "find"]
          ELSE /\ r_pc' = [r_pc EXCEPT ![p] = "raised_embedding"]
               /\ UNCHANGED entity
    /\ judged' = [judged EXCEPT ![p] = <<>>]
    /\ decision' = [decision EXCEPT ![p] = "none"]
    /\ UNCHANGED <<nodes, next_id, batch, domain_id, candidates, cand_idx, pending,
                   calls>>
    /\ UNCHANGED <<s_vars, b_vars, aux_vars>>

\* _store_graph line 195: every entity of the batch is resolved
FinishBatch(p) ==
    /\ r_pc[p] = "next"
    /\ Len(calls[p]) = Len(batch[p])
    /\ r_pc' = [r_pc EXCEPT ![p] = "stored"]
    /\ UNCHANGED <<nodes, next_id, batch, domain_id, entity, candidates, cand_idx,
                   decision, pending, judged, calls>>
    /\ UNCHANGED <<s_vars, b_vars, aux_vars>>

\* resolve_and_insert line 218: the candidate query
FindCandidates(p) ==
    /\ r_pc[p] = "find"
    /\ \E db_ok \in BOOLEAN :
          IF db_ok
          THEN /\ candidates' \in
                    {[candidates EXCEPT ![p] = cs] :
                        cs \in find_candidates(nodes, entity[p].embedding,
                                               THRESHOLD)}
               /\ cand_idx' = [cand_idx EXCEPT ![p] = 1]
               /\ r_pc' = [r_pc EXCEPT ![p] = "loop"]
          ELSE /\ r_pc' = [r_pc EXCEPT ![p] = "raised_store"]
               /\ UNCHANGED <<candidates, cand_idx>>
    /\ UNCHANGED <<nodes, next_id, batch, domain_id, entity, decision, pending,
                   judged, calls>>
    /\ UNCHANGED <<s_vars, b_vars, aux_vars>>

\* resolve_and_insert lines 220-244: the fast paths for the next candidate,
\* or the call of judge_pair
ExamineCandidate(p) ==
    /\ r_pc[p] = "loop"
    /\ cand_idx[p] <= Len(candidates[p])
    /\ LET c == candidates[p][cand_idx[p]] IN
       IF ExactMatch(c, entity[p])
       THEN /\ Returned(p, c.id, "exact", judged[p])
            /\ UNCHANGED judged
       ELSE IF NormalizedMatch(c, entity[p])
       THEN /\ Returned(p, c.id, "normalized", judged[p])
            /\ UNCHANGED judged
       ELSE /\ r_pc' = [r_pc EXCEPT ![p] = "judging"]
            /\ UNCHANGED <<entity, candidates, cand_idx, judged, calls>>
    /\ UNCHANGED <<nodes, next_id, batch, domain_id, decision, pending>>
    /\ UNCHANGED <<s_vars, b_vars, aux_vars>>

\* resolve_and_insert line 255: no candidate is left
CandidatesExhausted(p) ==
    /\ r_pc[p] = "loop"
    /\ cand_idx[p] > Len(candidates[p])
    /\ r_pc' = [r_pc EXCEPT ![p] = "insert"]
    /\ UNCHANGED <<nodes, next_id, batch, domain_id, entity, candidates, cand_idx,
                   decision, pending, judged, calls>>
    /\ UNCHANGED <<s_vars, b_vars, aux_vars>>

\* resolve_and_insert lines 244-253: judge_pair answers
JudgePair(p) ==
    /\ r_pc[p] = "judging"
    /\ \E d \in JudgePairResults :
          LET c == candidates[p][cand_idx[p]]
          IN IF d = "raise"
             THEN /\ r_pc' = [r_pc EXCEPT ![p] = "raised_reasoning"]
                  /\ UNCHANGED <<entity, candidates, cand_idx, decision,
                                 judged, calls>>
             ELSE /\ decision' = [decision EXCEPT ![p] = d]
                  /\ judged' = [judged EXCEPT ![p] =
                                   Append(@, [id |-> c.id, decision |-> d])]
                  /\ IF Merges(d)
                     THEN Returned(p, c.id, "merge",
                              Append(judged[p],
                                     [id |-> c.id, decision |-> d]))
                     ELSE /\ cand_idx' = [cand_idx EXCEPT ![p] = @ + 1]
                          /\ r_pc' = [r_pc EXCEPT ![p] = "loop"]
                          /\ UNCHANGED <<entity, candidates, calls>>
    /\ UNCHANGED <<nodes, next_id, batch, domain_id, pending>>
    /\ UNCHANGED <<s_vars, b_vars, aux_vars>>

\* _insert_entity lines 260-278: the upsert runs in its own transaction
InsertExecute(p) ==
    /\ r_pc[p] = "insert"
    /\ \E db_ok \in BOOLEAN :
          IF db_ok
          THEN LET row == NodeRow(entity[p], domain_id[p])
                   w == UpsertWrite(nodes, next_id, row)
               IN /\ ~ Blocked(p, row)
                  /\ pending' = [pending EXCEPT ![p] = w]
                  /\ next_id' = IF w.kind = "insert" THEN next_id + 1
                                ELSE next_id
                  /\ r_pc' = [r_pc EXCEPT ![p] = "commit"]
          ELSE /\ r_pc' = [r_pc EXCEPT ![p] = "raised_store"]
               /\ UNCHANGED <<pending, next_id>>
    /\ UNCHANGED <<nodes, batch, domain_id, entity, candidates, cand_idx, decision,
                   judged, calls>>
    /\ UNCHANGED <<s_vars, b_vars, aux_vars>>

\* _insert_entity lines 279-290: commit and return the id
InsertCommit(p) ==
    /\ r_pc[p] = "commit"
    /\ \E db_ok \in BOOLEAN :
          IF db_ok
          THEN /\ nodes' = Committed(nodes, pending[p])
               /\ Returned(p, pending[p].id, pending[p].kind, judged[p])
          ELSE /\ r_pc' = [r_pc EXCEPT ![p] = "raised_store"]
               /\ UNCHANGED <<nodes, entity, candidates, cand_idx, calls>>
    /\ pending' = [pending EXCEPT ![p] = NoWrite]
    /\ UNCHANGED <<next_id, batch, domain_id, decision, judged>>
    /\ UNCHANGED <<s_vars, b_vars, aux_vars>>

NextResolver ==
    \E p \in Procs :
        \/ StartEntity(p)
        \/ FinishBatch(p)
        \/ FindCandidates(p)
        \/ ExamineCandidate(p)
        \/ CandidatesExhausted(p)
        \/ JudgePair(p)
        \/ InsertExecute(p)
        \/ InsertCommit(p)

SpecResolver == InitResolver /\ [][NextResolver]_vars

SpecRace == InitRace /\ [][NextResolver]_vars

\* ------------------------------------------------------------------------
\* find_candidates alone, against stores of up to MaxStore rows
\* ------------------------------------------------------------------------
StoreNames == <<Al, al, DrAl, Bo>>

\* Row i of a store: its key is fixed by i, its embedding is emb
StoreRow(i, emb) ==
    [name |-> StoreNames[((i - 1) % Len(StoreNames)) + 1],
     type |-> IF ((i - 1) \div Len(StoreNames)) % 2 = 0 THEN "Person" ELSE "Org",
     description |-> "x", embedding |-> emb,
     domain_id |-> IF i <= 2 * Len(StoreNames) THEN "d1" ELSE "d2"]

InitFind ==
    /\ \E n \in 0..MaxStore : \E embs \in [1..n -> Embeddings] :
          /\ nodes = [i \in 1..n |-> StoreRow(i, embs[i])]
          /\ next_id = n + 1
    /\ \E e \in ObservedEntities :
          /\ batch = [p \in Procs |-> IF p = 1 THEN <<e>> ELSE <<>>]
          /\ entity = [p \in Procs |-> IF p = 1 THEN e ELSE NoEntity]
    /\ domain_id = [p \in Procs |-> "d1"]
    /\ r_pc = [p \in Procs |-> IF p = 1 THEN "find" ELSE "stored"]
    /\ candidates = [p \in Procs |-> <<>>]
    /\ cand_idx = [p \in Procs |-> 0]
    /\ decision = [p \in Procs |-> "none"]
    /\ pending = [p \in Procs |-> NoWrite]
    /\ judged = [p \in Procs |-> <<>>]
    /\ calls = [p \in Procs |-> <<>>]
    /\ SummarizerUnused
    /\ BreakerUnused
    /\ AuxUnused

NextFind == \E p \in Procs : FindCandidates(p)

SpecFind == InitFind /\ [][NextFind]_vars

\* ------------------------------------------------------------------------
\* Resolver: properties
\* ------------------------------------------------------------------------
\* The calls of run p that have ended, as pairs <<p, k>>
EndedCalls == {pk \in Procs \X (1..MaxBatch) : pk[2] <= Len(calls[pk[1]])}

CallOf(pk) == calls[pk[1]][pk[2]]

Ids(cs) == [k \in 1..Len(cs) |-> cs[k].id]

\* Equal type, and names equal case-insensitively or after normalization
FastMatch(c, e) ==
    /\ c.type = e.type
    /\ \/ Lower(c.name) = Lower(e.name)
       \/ NormalizeName(c.name) = NormalizeName(e.name)

\* The arbiter answered MERGE for candidate id in the list of judged pairs js
MergedIn(js, id) ==
    \E j \in 1..Len(js) : js[j].id = id /\ js[j].decision = "MERGE"

\* Candidate k of cs resolves entity e, given the judged pairs js
ResolvesAt(cs, e, js, k) == FastMatch(cs[k], e) \/ MergedIn(js, cs[k].id)

\* C3 as stated: two calls in succession with the same observed entity
\* return the same node id and the second call inserts no node.
C3_Idempotent ==
    \A pk \in EndedCalls :
        LET p == pk[1]
            k == pk[2]
        IN (k + 1 <= Len(calls[p])
              /\ calls[p][k].entity = calls[p][k + 1].entity)
           => /\ calls[p][k + 1].result = calls[p][k].result
              /\ calls[p][k + 1].via # "insert"

\* The second call judges no pair differently from the first call.
SameDecisions(first, second) ==
    \A i \in 1..Len(first.judged), j \in 1..Len(second.judged) :
        first.judged[i].id = second.judged[j].id
        => first.judged[i].decision = second.judged[j].decision

\* The candidate query of the second call returns the candidates of the
\* first call in the same order, apart from the node the first call made.
SameOrder(first, second) ==
    LET kept == SelectSeq(Ids(second.candidates),
                          LAMBDA id : ~ (first.via = "insert"
                                           /\ id = first.result))
    IN /\ Len(kept) <= Len(first.candidates)
       /\ kept = SubSeq(Ids(first.candidates), 1, Len(kept))
       /\ Len(kept) < Len(first.candidates)
             => Len(second.candidates) = CANDIDATE_LIMIT

\* C3 amended: two calls in succession with the same observed entity return
\* the same node id and the second call inserts no node, provided the
\* arbiter decides every pair it judges in both calls the same way and the
\* second candidate query returns the first call's candidates in the same
\* order (apart from the node the first call inserted).
C3_IdempotentWhenConsistent ==
    \A pk \in EndedCalls :
        LET p == pk[1]
            k == pk[2]
        IN (k + 1 <= Len(calls[p])
              /\ calls[p][k].entity = calls[p][k + 1].entity
              /\ SameDecisions(calls[p][k], calls[p][k + 1])
              /\ SameOrder(calls[p][k], calls[p][k + 1]))
           => /\ calls[p][k + 1].result = calls[p][k].result
              /\ calls[p][k + 1].via # "insert"

C3_Witness ==
    \E pk \in EndedCalls :
        LET p == pk[1]
            k == pk[2]
        IN /\ k + 1 <= Len(calls[p])
           /\ calls[p][k].entity = calls[p][k + 1].entity
           /\ calls[p][k].via = "insert"
           /\ Len(calls[p][k].judged) > 0
           /\ Len(calls[p][k + 1].judged) > 0
           /\ SameDecisions(calls[p][k], calls[p][k + 1])
           /\ SameOrder(calls[p][k], calls[p][k + 1])
           /\ calls[p][k + 1].result = calls[p][k].result

\* C4: whatever way the reasoning-service call of judge_pair fails,
\* judge_pair returns a decision and resolve_and_insert does not raise
\* because of that failure.
C4_ArbiterFailureNeverRaises ==
    \A p \in Procs : r_pc[p] # "raised_reasoning"

\* C5: resolve_and_insert returns the id of the first candidate that
\* resolves (exact match, normalized match or arbiter MERGE), judges no
\* candidate after it and writes no node; it inserts and returns the
\* inserted node's id if and only if no candidate resolves.
C5_FirstResolvingCandidate ==
    /\ \A p \in Procs : r_pc[p] # "raised_reasoning"
    /\ \A pk \in EndedCalls :
          LET cr == CallOf(pk)
              cs == cr.candidates
              hits == {k \in 1..Len(cs) :
                          ResolvesAt(cs, cr.entity, cr.judged, k)}
          IN IF hits # {}
             THEN LET first == CHOOSE k \in hits : \A j \in hits : k <= j
                  IN /\ cr.result = cs[first].id
                     /\ cr.via \in {"exact", "normalized", "merge"}
                     /\ \A j \in 1..Len(cr.judged) :
                           \E i \in 1..first : cs[i].id = cr.judged[j].id
             ELSE /\ cr.via \in {"insert", "update"}
                  /\ cr.result \in DOMAIN nodes
                  /\ nodes[cr.result].name = cr.entity.name
                  /\ nodes[cr.result].type = cr.entity.type

\* C6: a candidate of equal type whose name equals the entity's name
\* case-insensitively or after normalization is never handed to the arbiter,
\* and if no earlier candidate resolved the call returns its id.
C6_FastPathBypassesArbiter ==
    /\ \A p \in Procs :
          r_pc[p] = "judging"
          => ~ FastMatch(candidates[p][cand_idx[p]], entity[p])
    /\ \A pk \in EndedCalls :
          LET cr == CallOf(pk)
              cs == cr.candidates
          IN \A k \in 1..Len(cs) :
                FastMatch(cs[k], cr.entity)
                => /\ \A j \in 1..Len(cr.judged) : cr.judged[j].id # cs[k].id
                   /\ (\A i \in 1..(k - 1) :
                          ~ ResolvesAt(cs, cr.entity, cr.judged, i))
                      => cr.result = cs[k].id
    /\ \A p \in Procs :
          r_pc[p] = "raised_reasoning"
          => \A k \in 1..Len(candidates[p]) :
                ~ (/\ FastMatch(candidates[p][k], entity[p])
                   /\ \A i \in 1..(k - 1) :
                         ~ ResolvesAt(candidates[p], entity[p], judged[p], i))

\* All rows of the store have distinct (name, type, domain_id)
UniqueKeys ==
    \A i \in DOMAIN nodes, j \in DOMAIN nodes :
        i # j => NodeKey(nodes[i]) # NodeKey(nodes[j])

\* Run p commits an upsert that collided with an existing row
CollidingCommit(p) ==
    /\ r_pc[p] = "commit"
    /\ r_pc'[p] = "next"
    /\ pending[p].kind = "update"

JustQueried(p) == r_pc[p] = "loop" /\ cand_idx[p] = 1

\* C8: find_candidates returns at most 5 stored nodes, ordered by similarity
\* descending, each with similarity strictly greater than the threshold; a
\* stored node with similarity less than or equal to the threshold never
\* appears.
C8_CandidateList ==
    \A p \in Procs :
        JustQueried(p)
        => LET cs == candidates[p] IN
           /\ Len(cs) <= 5
           /\ \A k \in 1..Len(cs) :
                 /\ cs[k].id \in DOMAIN nodes
                 /\ cs[k].similarity =
                       Similarity(nodes[cs[k].id].embedding,
                                  entity[p].embedding)
                 /\ cs[k].similarity > 70
                 /\ cs[k].name = nodes[cs[k].id].name
                 /\ cs[k].type = nodes[cs[k].id].type
           /\ \A k \in 1..(Len(cs) - 1) :
                 cs[k].similarity >= cs[k + 1].similarity
           /\ \A j, k \in 1..Len(cs) : j # k => cs[j].id # cs[k].id
           /\ \A i \in DOMAIN nodes :
                 Similarity(nodes[i].embedding, entity[p].embedding) <= 70
                 => \A k \in 1..Len(cs) : cs[k].id # i

\* Five candidates were returned although more rows lie above the threshold,
\* and a row lies exactly on the threshold.
C8_Witness ==
    \E p \in Procs :
        /\ JustQueried(p)
        /\ Len(candidates[p]) = 5
        /\ candidates[p][1].similarity > candidates[p][5].similarity
        /\ Cardinality({i \in DOMAIN nodes :
               Similarity(nodes[i].embedding, entity[p].embedding) > 70}) > 5
        /\ \E i \in DOMAIN nodes :
               Similarity(nodes[i].embedding, entity[p].embedding) = 70

\* judge_pair has answered d for run p in this step
JudgeAnswered(p, d) ==
    /\ r_pc[p] = "judging"
    /\ judged'[p] # judged[p]
    /\ decision'[p] = d

\* C9: a LINK decision causes no graph action: it leaves the store as it is
\* and moves on to the next candidate exactly as KEEP_SEPARATE does, so
\* replacing LINK by KEEP_SEPARATE changes neither the id returned nor the
\* store.
C9_LinkIsKeepSeparate ==
    [][\A p \in Procs :
          (JudgeAnswered(p, "LINK") \/ JudgeAnswered(p, "KEEP_SEPARATE"))
          => /\ nodes' = nodes
             /\ next_id' = next_id
             /\ pending' = pending
             /\ calls' = calls
             /\ entity' = entity
             /\ candidates' = candidates
             /\ cand_idx'[p] = cand_idx[p] + 1
             /\ r_pc'[p] = "loop"]_vars

C9_Witness ==
    \E pk \in EndedCalls :
        /\ \E j \in 1..Len(CallOf(pk).judged) :
              CallOf(pk).judged[j].decision = "LINK"
        /\ CallOf(pk).via = "insert"
        /\ CallOf(pk).result \in DOMAIN nodes

\* C10: within one batch the candidate query of the next entity begins only
\* after the resolution of every earlier entity has returned and the node it
\* wrote is committed, so that an entity can be resolved against a node
\* inserted earlier in the same batch.
C10_SequentialBatch ==
    \A p \in Procs :
        r_pc[p] = "find"
        => /\ entity[p] = batch[p][Len(calls[p]) + 1]
           /\ pending[p] = NoWrite
           /\ \A k \in 1..Len(calls[p]) :
                 /\ calls[p][k].entity = batch[p][k]
                 /\ calls[p][k].result \in DOMAIN nodes
                 /\ calls[p][k].via \in {"insert", "update"}
                    => NodeKey(nodes[calls[p][k].result])
                         = <<batch[p][k].name, batch[p][k].type, domain_id[p]>>

\* The second entity of a batch resolved to the node the first one inserted.
C10_Witness ==
    \E p \in Procs :
        /\ Len(calls[p]) >= 2
        /\ calls[p][1].via = "insert"
        /\ calls[p][2].via \in {"exact", "normalized", "merge"}
        /\ calls[p][2].result = calls[p][1].result
        /\ calls[p][2].entity # calls[p][1].entity

\* ------------------------------------------------------------------------
\* Circuit breaker: operations
\* ------------------------------------------------------------------------
ShouldAttemptRecoveryLate(b, t) ==
    IF b.last_failure_time = NoTime
    THEN FALSE
    ELSE t - b.last_failure_time > b.recovery_timeout

\* _should_attempt_recovery, lines 66-70, with time.time() = t
_should_attempt_recovery(b, t) ==
    IF b.last_failure_time = NoTime
    THEN FALSE
    ELSE t - b.last_failure_time >= b.recovery_timeout

RecordSuccessKeepsCount(b) ==
    [b EXCEPT !.successful_requests = @ + 1,
              !.half_open_attempts = 0,
              !.state = "CLOSED"]

\* _record_success, lines 72-77
_record_success(b) ==
    [b EXCEPT !.successful_requests = @ + 1,
              !.failure_count = 0,
              !.half_open_attempts = 0,
              !.state = "CLOSED"]

TripsClosedLate(b) ==
    b.state = "CLOSED" /\ b.failure_count > b.failure_threshold

\* _record_failure, lines 85-88: the condition of the first branch
TripsClosed(b) ==
    b.state = "CLOSED" /\ b.failure_count >= b.failure_threshold

TripsHalfOpenLate(b) == b.half_open_attempts > b.half_open_max_attempts

\* _record_failure, line 92
TripsHalfOpen(b) == b.half_open_attempts >= b.half_open_max_attempts

\* _record_failure, lines 79-93, with time.time() = t
_record_failure(b, t) ==
    LET counted == [b EXCEPT !.failed_requests = @ + 1,
                             !.failure_count = @ + 1,
                             !.last_failure_time = t]
        attempted == [counted EXCEPT !.half_open_attempts = @ + 1]
    IN  IF TripsClosed(counted)
        THEN [counted EXCEPT !.state = "OPEN"]
        ELSE IF counted.state = "HALF_OPEN"
             THEN IF TripsHalfOpen(attempted)
                  THEN [attempted EXCEPT !.state = "OPEN"]
                  ELSE attempted
             ELSE counted

\* A breaker of any small configuration, before its first call
InitBreaker ==
    /\ \E threshold \in 1..MaxThreshold : \E timeout \in 1..MaxTimeout :
       \E attempts \in 1..MaxHalfOpen :
          breaker = NewBreaker(threshold, timeout, attempts)
    /\ now = 0
    /\ c_pc = [p \in Callers |-> "idle"]
    /\ consecutive = 0
    /\ admitted = 0
    /\ trial_failures = 0
    /\ ResolverUnused
    /\ SummarizerUnused
    /\ AuxUnused

\* ------------------------------------------------------------------------
\* Circuit breaker: actions of caller p
\* ------------------------------------------------------------------------
\* call, lines 111-122: count the request, check the state, start func
Call(p) ==
    /\ c_pc[p] # "in_flight"
    /\ breaker.total_requests < MaxRequests
    /\ LET counted == [breaker EXCEPT !.total_requests = @ + 1]
       IN  IF counted.state = "OPEN"
           THEN IF _should_attempt_recovery(counted, now)
                THEN /\ breaker' = [counted EXCEPT !.state = "HALF_OPEN",
                                                   !.half_open_attempts = 0]
                     /\ c_pc' = [c_pc EXCEPT ![p] = "in_flight"]
                     /\ admitted' = 1
                     /\ trial_failures' = 0
                ELSE /\ breaker' = counted
                     /\ c_pc' = [c_pc EXCEPT ![p] = "circuit_open"]
                     /\ UNCHANGED <<admitted, trial_failures>>
           ELSE /\ breaker' = counted
                /\ c_pc' = [c_pc EXCEPT ![p] = "in_flight"]
                /\ admitted' = IF counted.state = "HALF_OPEN"
                               THEN admitted + 1
                               ELSE admitted
                /\ UNCHANGED trial_failures
    /\ UNCHANGED <<now, consecutive>>
    /\ UNCHANGED <<s_vars, r_vars, aux_vars>>

\* call, lines 122-124: func returned
CallReturns(p) ==
    /\ c_pc[p] = "in_flight"
    /\ breaker' = _record_success(breaker)
    /\ c_pc' = [c_pc EXCEPT ![p] = "returned"]
    /\ consecutive' = 0
    /\ UNCHANGED <<now, admitted, trial_failures>>
    /\ UNCHANGED <<s_vars, r_vars, aux_vars>>

\* call, lines 125-127: func raised an Exception
CallRaises(p) ==
    /\ c_pc[p] = "in_flight"
    /\ breaker' = _record_failure(breaker, now)
    /\ c_pc' = [c_pc EXCEPT ![p] = "raised"]
    /\ consecutive' = consecutive + 1
    /\ trial_failures' = IF breaker.state = "HALF_OPEN"
                         THEN trial_failures + 1
                         ELSE trial_failures
    /\ UNCHANGED <<now, admitted>>
    /\ UNCHANGED <<s_vars, r_vars, aux_vars>>

\* call, line 122: the task is cancelled while it awaits func; CancelledError
\* is no Exception, so neither outcome is recorded
CallCancelled(p) ==
    /\ c_pc[p] = "in_flight"
    /\ c_pc' = [c_pc EXCEPT ![p] = "cancelled"]
    /\ UNCHANGED <<breaker, now, consecutive, admitted, trial_failures>>
    /\ UNCHANGED <<s_vars, r_vars, aux_vars>>

\* time.time() advances
Tick ==
    /\ now < MaxTime
    /\ now' = now + 1
    /\ UNCHANGED <<breaker, c_pc, consecutive, admitted, trial_failures>>
    /\ UNCHANGED <<s_vars, r_vars, aux_vars>>

NextBreaker ==
    \/ \E p \in Callers : Call(p)
    \/ \E p \in Callers : CallReturns(p)
    \/ \E p \in Callers : CallRaises(p)
    \/ \E p \in Callers : CallCancelled(p)
    \/ Tick

SpecBreaker == InitBreaker /\ [][NextBreaker]_vars

\* ------------------------------------------------------------------------
\* Circuit breaker: properties
\* ------------------------------------------------------------------------
\* The step is the entry of a call(): the request is counted
CallEntered == breaker'.total_requests = breaker.total_requests + 1

\* The step passes a call to the wrapped function
FuncInvoked ==
    \E p \in Callers : c_pc[p] # "in_flight" /\ c_pc'[p] = "in_flight"

\* The step ends a call() with CircuitBreakerOpenError
OpenErrorRaised ==
    /\ \E p \in Callers : c_pc[p] # "in_flight" /\ c_pc'[p] = "circuit_open"
    /\ \A p \in Callers : c_pc'[p] = "in_flight" <=> c_pc[p] = "in_flight"

\* The step records a failed call
FailureRecorded == breaker'.failed_requests = breaker.failed_requests + 1

\* The step records a successful call
SuccessRecorded ==
    breaker'.successful_requests = breaker.successful_requests + 1

\* C11: from CLOSED the breaker leaves only to OPEN, and it does so exactly in
\* the step that records the failure_threshold-th consecutive failed call;
\* while CLOSED, fewer than failure_threshold consecutive failures have been
\* recorded, every call() is passed to the wrapped function and the state
\* stays CLOSED.
C11_ClosedTripsAtThreshold ==
    [][breaker.state = "CLOSED" =>
          /\ consecutive < breaker.failure_threshold
          /\ breaker'.state \in {"CLOSED", "OPEN"}
          /\ breaker'.state = "OPEN" <=>
                (FailureRecorded /\ consecutive' = breaker.failure_threshold)
          /\ CallEntered => (FuncInvoked /\ breaker'.state = "CLOSED")]_vars

\* Witness of C11: a failure, a success that resets the run, and then a full
\* threshold of consecutive failures that opens the breaker for the first time
C11_Witness ==
    /\ breaker.state = "OPEN"
    /\ breaker.failure_threshold >= 2
    /\ breaker.successful_requests >= 1
    /\ breaker.failed_requests > breaker.failure_threshold
    /\ consecutive = breaker.failure_threshold
    /\ admitted = 0

\* C12: a call() that finds the breaker OPEN less than recovery_timeout after
\* the last recorded failure raises CircuitBreakerOpenError, invokes nothing
\* and leaves the state OPEN; one that finds it OPEN once the timeout has
\* elapsed sets HALF_OPEN and invokes the wrapped function.
C12_OpenFailsFastUntilTimeout ==
    [][(breaker.state = "OPEN" /\ CallEntered) =>
          IF now - breaker.last_failure_time < breaker.recovery_timeout
          THEN /\ OpenErrorRaised
               /\ breaker'.state = "OPEN"
               /\ breaker' = [breaker EXCEPT !.total_requests = @ + 1]
          ELSE /\ FuncInvoked
               /\ breaker'.state = "HALF_OPEN"]_vars

\* Witness of C12: one call was refused and a later one was let through as the
\* trial that made the breaker HALF_OPEN
C12_Witness ==
    /\ breaker.state = "HALF_OPEN"
    /\ \E p \in Callers : c_pc[p] = "circuit_open"
    /\ \E p \in Callers : c_pc[p] = "in_flight"
    /\ admitted = 1
    /\ now - breaker.last_failure_time = breaker.recovery_timeout

\* C13 as stated: a failure recorded while HALF_OPEN leaves the breaker OPEN.
C13_AnyTrialFailureReopens ==
    [][(breaker.state = "HALF_OPEN" /\ FailureRecorded) =>
          breaker'.state = "OPEN"]_vars

\* C13 as amended: a failure recorded while HALF_OPEN leaves the breaker OPEN
\* when it is the half_open_max_attempts-th failure recorded since HALF_OPEN
\* was entered, and HALF_OPEN otherwise.
C13_ReopensAtMaxAttempts ==
    [][(breaker.state = "HALF_OPEN" /\ FailureRecorded) =>
          breaker'.state =
             IF trial_failures' >= breaker.half_open_max_attempts
             THEN "OPEN"
             ELSE "HALF_OPEN"]_vars

\* Witness of C13: the second failed trial of an episode reopened the breaker
C13_Witness ==
    /\ breaker.state = "OPEN"
    /\ breaker.half_open_max_attempts = 2
    /\ trial_failures = 2
    /\ admitted = 2

\* C14: a success recorded while HALF_OPEN sets CLOSED and zeroes
\* failure_count and half_open_attempts, and the breaker then opens again
\* only with the failure_threshold-th consecutive failure after it.
C14_TrialSuccessCloses ==
    [][/\ (breaker.state = "HALF_OPEN" /\ SuccessRecorded) =>
             /\ breaker'.state = "CLOSED"
             /\ breaker'.failure_count = 0
             /\ breaker'.half_open_attempts = 0
       /\ (breaker.state = "CLOSED" /\ breaker'.state = "OPEN") =>
             consecutive' >= breaker.failure_threshold]_vars

\* Witness of C14: failure_threshold failures, the timeout, and one trial
\* that succeeded
C14_Witness ==
    /\ breaker.state = "CLOSED"
    /\ admitted = 1
    /\ breaker.failed_requests = breaker.failure_threshold
    /\ breaker.successful_requests = 1
    /\ breaker.total_requests = breaker.failure_threshold + 1
    /\ breaker.failure_count = 0

\* C15: while HALF_OPEN, at most half_open_max_attempts calls have been passed
\* to the wrapped function since HALF_OPEN was entered.
C15_TrialsLimited ==
    breaker.state = "HALF_OPEN" => admitted <= breaker.half_open_max_attempts

\* ------------------------------------------------------------------------
\* Reasoning-service calls and the circuit breaker
\* ------------------------------------------------------------------------
\* The step is the chat_completion call of judge_pair, line 177
ArbiterCalled == \E p \in Procs : r_pc[p] = "judging" /\ r_pc'[p] # "judging"

\* C16: every reasoning-service call of the arbiter is a call() of a circuit
\* breaker, which counts the request and refuses it while OPEN.
C16_ArbiterThroughBreaker ==
    [][ArbiterCalled =>
          breaker'.total_requests = breaker.total_requests + 1]_vars

\* ------------------------------------------------------------------------
\* Summarizer: failures
\* ------------------------------------------------------------------------
\* The step ends the report generation of a community in failure
GenerationFailed ==
    \E c \in DOMAIN communities : outcome[c] # "failed" /\ outcome'[c] = "failed"

\* C17: a failed report generation (service error, missing or unexpected tool
\* call, unparsable arguments, failure while saving) hands control back to
\* the loop over the level's communities instead of raising, and a run that
\* ends has attempted every community of every level.
C17_FailureIsolated ==
    /\ [][GenerationFailed => s_pc' = "community"]_vars
    /\ [](s_pc = "done" =>
             \A c \in DOMAIN communities : outcome[c] \in Completed)

\* Witness of C17: the run ended; one community failed while another of its
\* level and one of a higher level were saved
C17_Witness ==
    /\ s_pc = "done"
    /\ \E c \in DOMAIN communities, d \in DOMAIN communities,
          e \in DOMAIN communities :
          /\ c # d
          /\ outcome[c] = "failed"
          /\ outcome[d] = "saved"
          /\ communities[d].level = communities[c].level
          /\ outcome[e] = "saved"
          /\ communities[e].level > communities[c].level

\* Community c has nothing to summarize: no member node (and so no internal
\* edge) at level 0, no child community above
NothingToSummarize(c) ==
    IF communities[c].level = 0 THEN members[c] = 0 ELSE Children(c) = {}

\* C18: a community with nothing to summarize is skipped: the reasoning
\* service is never called for it and its row stays pending.
C18_EmptyContextSkipped ==
    \A c \in DOMAIN communities :
        NothingToSummarize(c) =>
            /\ ~GenerationStarted(c)
            /\ communities[c].summary = PendingSummary

\* The row holds all four values of one report
WholeReport(row) ==
    \E rep \in Reports :
        /\ row.title = rep.title
        /\ row.summary = rep.summary
        /\ row.full_content = rep
        /\ row.embedding = <<rep.title, " ", rep.summary>>

\* The row holds none of the values of a report
Untouched(row) ==
    /\ row.title = PlaceholderTitle
    /\ row.summary = PendingSummary
    /\ row.full_content = NoReport
    /\ row.embedding = <<>>

\* C19: a row whose report was saved holds the title, summary, full content
\* and embedding of that one report, every other row holds none of them, and
\* a generation that fails (the embedding computation included) changes no
\* row.
C19_ReportPersistedWhole ==
    /\ [](\A c \in DOMAIN communities :
             IF outcome[c] = "saved"
             THEN WholeReport(communities[c])
             ELSE Untouched(communities[c]))
    /\ [][GenerationFailed => communities' = communities]_vars

\* Witness of C19: one report was saved, and the saving of another, parsed
\* from a valid tool call, failed
C19_Witness ==
    /\ s_pc = "community"
    /\ comm_id \in DOMAIN communities
    /\ outcome[comm_id] = "failed"
    /\ response = "tool_call"
    /\ \E c \in DOMAIN communities : outcome[c] = "saved"

\* C20: an answer that carries the report as a tool-call payload or as a JSON
\* object in free text is parsed and goes on to be saved.
C20_BothFormsAccepted ==
    [][(s_pc = "generating" /\ response' \in {"tool_call", "json_text"})
          => s_pc' = "saving"]_vars

\* ------------------------------------------------------------------------
\* Resolver: the decision of judge_pair
\* ------------------------------------------------------------------------
\* C21: every decision judge_pair has returned is MERGE, LINK or
\* KEEP_SEPARATE.
C21_DecisionCoerced ==
    \A p \in Procs : \A k \in 1..Len(judged[p]) :
        judged[p][k].decision \in {"MERGE", "LINK", "KEEP_SEPARATE"}

\* ------------------------------------------------------------------------
\* Community detection: clustering and rebuild (CommunityDetector)
\* ------------------------------------------------------------------------
GraphNodes == 1..MaxGraphNodes

\* The node lists of the graphs: distinct nodes in the order of G.nodes()
Graphs ==
    {ns \in UNION {[1..k -> GraphNodes] : k \in 0..MaxGraphNodes} :
        \A i \in DOMAIN ns, j \in DOMAIN ns : ns[i] = ns[j] => i = j}

\* The cluster id "{level}-{index}"
ClusterId(l, index) == <<l, index>>

Membership(n, l, index) ==
    [node_id |-> n, level |-> l, cluster_id |-> ClusterId(l, index)]

FallbackAlwaysParent(ns) ==
    [i \in 1..Len(ns) |-> Membership(ns[i], 0, i - 1)]
    \o [i \in 1..Len(ns) |-> Membership(ns[i], 1, 0)]

\* _fallback_clustering: every node in its own level-0 cluster and, for more
\* than one node, all nodes in the one level-1 cluster
_fallback_clustering(ns) ==
    [i \in 1..Len(ns) |-> Membership(ns[i], 0, i - 1)]
    \o (IF Len(ns) > 1
        THEN [i \in 1..Len(ns) |-> Membership(ns[i], 1, 0)]
        ELSE <<>>)

\* The records of ms in order, for the nodes that a assigns a cluster to
RECURSIVE LevelRecords(_, _, _, _)
LevelRecords(ns, l, a, i) ==
    IF i > Len(ns) THEN <<>>
    ELSE (IF a[ns[i]] = MaxClusters
          THEN <<>>
          ELSE <<Membership(ns[i], l, a[ns[i]])>>)
         \o LevelRecords(ns, l, a, i + 1)

\* The results of the external multi-resolution clustering: a partition of
\* the nodes at level 0 and a partition of some of the nodes at level 1
PrimaryResults(ns) ==
    LET S == {ns[i] : i \in DOMAIN ns} IN
    {LevelRecords(ns, 0, a0, 1) \o LevelRecords(ns, 1, a1, 1) :
        a0 \in [S -> 0..(MaxClusters - 1)], a1 \in [S -> 0..MaxClusters]}

ClusterIds(ms) == {ms[i].cluster_id : i \in DOMAIN ms}

\* The member nodes of cluster cid in the result ms
ClusterMembers(ms, cid) ==
    {ms[i].node_id : i \in {j \in DOMAIN ms : ms[j].cluster_id = cid}}

\* The ids the store generates for the new communities rows: fresh ones
LastId(old) == IF DOMAIN old = {} THEN 0 ELSE MaxOf(DOMAIN old)

NewIds(old, ms) ==
    (LastId(old) + 1)..(LastId(old) + Cardinality(ClusterIds(ms)))

\* The order in which the rows of the clusters are inserted
ClusterBefore(a, b) == a[1] < b[1] \/ (a[1] = b[1] /\ a[2] < b[2])

\* community id -> cluster id of the rebuilt rows
NewClusterMap(old, ms) ==
    LET cids == ClusterIds(ms)
        first == LastId(old) + 1
    IN  [c \in NewIds(old, ms) |->
            CHOOSE cid \in cids :
                Cardinality({d \in cids : ClusterBefore(d, cid)}) = c - first]

RebuiltKeepingOld(old, ms) ==
    LET f == NewClusterMap(old, ms)
    IN  [c \in DOMAIN old \cup NewIds(old, ms) |->
            IF c \in DOMAIN old THEN old[c] ELSE PendingRow(f[c][1])]

\* save_communities: TRUNCATE communities, then one row per distinct cluster
\* id, with the placeholder title and the pending summary
RebuiltCommunities(old, ms) ==
    LET f == NewClusterMap(old, ms)
    IN  [c \in NewIds(old, ms) |-> PendingRow(f[c][1])]

\* save_communities: the membership rows of the result
RebuiltMembership(f, ms) ==
    {<<ci[1], ms[ci[2]].node_id>> : ci \in
        {x \in (DOMAIN f) \X (DOMAIN ms) : ms[x[2]].cluster_id = f[x[1]]}}

HierarchyByLevelOnly(f, ms) ==
    {<<p, c>> \in (DOMAIN f) \X (DOMAIN f) : f[p][1] = f[c][1] + 1}

\* save_communities: each level-L cluster is linked to the level-(L+1)
\* cluster its member set is nested within
RebuiltHierarchy(f, ms) ==
    {<<p, c>> \in (DOMAIN f) \X (DOMAIN f) :
        /\ f[p][1] = f[c][1] + 1
        /\ ClusterMembers(ms, f[c]) \subseteq ClusterMembers(ms, f[p])}

\* The communities rows a previous run left: pending or summarized
OldRows ==
    {PendingRow(0)}
    \cup {SavedRow(PendingRow(l), [title |-> "T1", summary |-> "S1"]) :
             l \in 0..1}

\* load_graph has returned; the tables hold what the previous run left
InitDetector ==
    /\ g_nodes \in Graphs
    /\ memberships = <<>>
    /\ \E n \in 0..MaxOldComms :
          /\ communities \in [1..n -> OldRows]
          /\ hierarchy \in
                SUBSET {pc \in (1..n) \X (1..n) :
                           communities[pc[1]].level = communities[pc[2]].level + 1}
          /\ members = [c \in 1..n |->
                           IF communities[c].summary = PendingSummary
                           THEN 0 ELSE 1]
          /\ membership_rows = {<<c, 1>> : c \in {d \in 1..n : members[d] = 1}}
          /\ old_comms = 1..n
    /\ cluster_map = <<>>
    /\ d_pc = "loaded"
    /\ s_pc = "done"
    /\ max_level = 0
    /\ level = 0
    /\ todo = <<>>
    /\ comm_id = NoComm
    /\ context = <<>>
    /\ report = NoReport
    /\ response = "none"
    /\ outcome = [c \in CommIds |-> "none"]
    /\ ResolverUnused
    /\ BreakerUnused
    /\ PipelineUnused
    /\ NormalizerUnused
    /\ HttpUnused
    /\ CacheUnused

\* detect_communities: the external clustering succeeds
DetectPrimary ==
    /\ d_pc = "loaded"
    /\ Len(g_nodes) > 0
    /\ memberships' \in PrimaryResults(g_nodes)
    /\ d_pc' = "clustered"
    /\ UNCHANGED <<g_nodes, membership_rows, cluster_map, old_comms>>
    /\ UNCHANGED <<s_vars, r_vars, b_vars, p_vars, n_vars, h_vars, e_vars>>

\* detect_communities: the fallback path
DetectFallback ==
    /\ d_pc = "loaded"
    /\ memberships' = _fallback_clustering(g_nodes)
    /\ d_pc' = "fell_back"
    /\ UNCHANGED <<g_nodes, membership_rows, cluster_map, old_comms>>
    /\ UNCHANGED <<s_vars, r_vars, b_vars, p_vars, n_vars, h_vars, e_vars>>

\* save_communities: nothing is done for an empty result; otherwise the three
\* tables are truncated and rebuilt in one transaction
SaveCommunities ==
    /\ d_pc \in {"clustered", "fell_back"}
    /\ IF memberships = <<>>
       THEN UNCHANGED <<communities, hierarchy, members, membership_rows,
                        cluster_map>>
       ELSE LET f == NewClusterMap(communities, memberships) IN
            /\ communities' = RebuiltCommunities(communities, memberships)
            /\ cluster_map' = f
            /\ membership_rows' = RebuiltMembership(f, memberships)
            /\ hierarchy' = RebuiltHierarchy(f, memberships)
            /\ members' = [c \in DOMAIN f |->
                              Cardinality(ClusterMembers(memberships, f[c]))]
    /\ d_pc' = "saved"
    /\ UNCHANGED <<g_nodes, memberships, old_comms>>
    /\ UNCHANGED <<s_pc, max_level, level, todo, comm_id, context, report,
                   response, outcome>>
    /\ UNCHANGED <<r_vars, b_vars, p_vars, n_vars, h_vars, e_vars>>

NextDetector ==
    \/ DetectPrimary
    \/ DetectFallback
    \/ SaveCommunities

SpecDetector == InitDetector /\ [][NextDetector]_vars

\* ------------------------------------------------------------------------
\* Community detection: properties
\* ------------------------------------------------------------------------
\* The records of node n at level l in the clustering result
RecordsOf(n, l) ==
    {i \in DOMAIN memberships :
        memberships[i].node_id = n /\ memberships[i].level = l}

NodeSet == {g_nodes[i] : i \in DOMAIN g_nodes}

\* C22: the result of fallback clustering is empty for an empty graph; one
\* record, at level 0 with cluster id "0-0", for a one-node graph; and for
\* N > 1 nodes one level-0 record per node, no two in the same cluster, plus
\* one level-1 record per node, all with cluster id "1-0".
C22_FallbackPartition ==
    d_pc = "fell_back" =>
        /\ Len(g_nodes) = 0 => memberships = <<>>
        /\ Len(g_nodes) = 1 =>
              memberships = <<[node_id |-> g_nodes[1], level |-> 0,
                               cluster_id |-> <<0, 0>>]>>
        /\ Len(g_nodes) > 1 =>
              /\ Len(memberships) = 2 * Len(g_nodes)
              /\ \A n \in NodeSet :
                    /\ Cardinality(RecordsOf(n, 0)) = 1
                    /\ Cardinality(RecordsOf(n, 1)) = 1
                    /\ \A i \in RecordsOf(n, 1) :
                          memberships[i].cluster_id = <<1, 0>>
              /\ \A i \in DOMAIN memberships, j \in DOMAIN memberships :
                    (/\ memberships[i].level = 0
                     /\ memberships[j].level = 0
                     /\ memberships[i].cluster_id = memberships[j].cluster_id)
                    => i = j

\* Witness of C22: the fallback has clustered a graph of three nodes
C22_Witness ==
    /\ d_pc = "fell_back"
    /\ Len(g_nodes) = 3
    /\ Len(memberships) = 6

\* The member nodes of community c
CommunityMembers(c) == {n \in GraphNodes : <<c, n>> \in membership_rows}

\* A rebuild has taken place in this run
Rebuilt == d_pc = "saved" /\ memberships # <<>>

\* C23: after a rebuild every hierarchy row links a child at some level L to
\* a parent at level L+1 whose member set includes the child's, and no node
\* is a member of two communities of one level.
C23_HierarchyNested ==
    Rebuilt =>
        /\ \A h \in hierarchy :
              /\ h[1] \in DOMAIN communities
              /\ h[2] \in DOMAIN communities
              /\ communities[h[1]].level = communities[h[2]].level + 1
              /\ CommunityMembers(h[2]) \subseteq CommunityMembers(h[1])
        /\ \A n \in GraphNodes :
           \A c \in DOMAIN communities, d \in DOMAIN communities :
              (/\ <<c, n>> \in membership_rows
               /\ <<d, n>> \in membership_rows
               /\ communities[c].level = communities[d].level)
              => c = d

\* Witness of C23: a rebuild from a result in which one level-1 cluster has
\* a nested child and another level-0 cluster is nested in no parent
C23_Witness ==
    /\ Rebuilt
    /\ hierarchy # {}
    /\ \E c \in DOMAIN communities :
          /\ communities[c].level = 0
          /\ \A h \in hierarchy : h[2] # c
          /\ \E p \in DOMAIN communities :
                /\ communities[p].level = 1
                /\ CommunityMembers(c) \cap CommunityMembers(p) # {}

\* The tables hold exactly the rebuilt state of the clustering result
OnlyRebuiltState ==
    /\ DOMAIN cluster_map = DOMAIN communities
    /\ \A c \in DOMAIN communities, d \in DOMAIN communities :
          cluster_map[c] = cluster_map[d] => c = d
    /\ {cluster_map[c] : c \in DOMAIN cluster_map} = ClusterIds(memberships)
    /\ \A c \in DOMAIN communities : Untouched(communities[c])
    /\ DOMAIN communities \cap old_comms = {}
    /\ \A h \in hierarchy : h[1] \notin old_comms /\ h[2] \notin old_comms
    /\ \A m \in membership_rows : m[1] \notin old_comms

\* C24 as stated: after save_communities on any clustering result the tables
\* hold one pending row per distinct cluster id and nothing from before.
C24_FullRebuild == d_pc = "saved" => OnlyRebuiltState

\* C24 as amended: the same after save_communities on a clustering result
\* that is not empty.
C24_FullRebuildWhenNonEmpty == Rebuilt => OnlyRebuiltState

\* Witness of C24: summarized rows of a previous run were replaced by the
\* rows of at least two clusters
C24_Witness ==
    /\ Rebuilt
    /\ Cardinality(old_comms) = MaxOldComms
    /\ \E c \in old_comms : c \notin DOMAIN communities
    /\ Cardinality(DOMAIN communities) >= 2

\* ------------------------------------------------------------------
\* KnowledgePipeline.run
\* ------------------------------------------------------------------

\* The stages of one run, in the order run calls them
Stages ==
    <<"extract", "_store_graph", "load_graph", "detect_communities",
      "save_communities", "summarize_all">>

StageSet == {Stages[i] : i \in 1..Len(Stages)}

\* Where run continues after a stage returned; n is the number of nodes of
\* the loaded graph
StageAfterSkippingSave(stage, n) ==
    CASE stage = "extract" -> "_store_graph"
      [] stage = "_store_graph" -> "load_graph"
      [] stage = "load_graph" ->
            IF n > 0 THEN "detect_communities" ELSE "summarize_all"
      [] stage = "detect_communities" -> "summarize_all"
      [] stage = "save_communities" -> "summarize_all"
      [] stage = "summarize_all" -> "done"

StageAfter(stage, n) ==
    CASE stage = "extract" -> "_store_graph"
      [] stage = "_store_graph" -> "load_graph"
      [] stage = "load_graph" ->
            IF n > 0 THEN "detect_communities" ELSE "summarize_all"
      [] stage = "detect_communities" -> "save_communities"
      [] stage = "save_communities" -> "summarize_all"
      [] stage = "summarize_all" -> "done"

InitPipeline ==
    /\ p_pc = "read_file"
    /\ running = "none"
    /\ events = <<>>
    /\ readable \in BOOLEAN
    /\ domain_given \in BOOLEAN
    /\ schema = FALSE
    /\ num_nodes = 0
    /\ ResolverUnused
    /\ SummarizerUnused
    /\ BreakerUnused
    /\ DetectorUnused
    /\ NormalizerUnused
    /\ HttpUnused
    /\ CacheUnused

p_others == <<s_vars, r_vars, b_vars, d_vars, n_vars, h_vars, e_vars>>

\* Stage 1: the file is read; a file that cannot be read ends the run
ReadFile ==
    /\ p_pc = "read_file"
    /\ p_pc' = IF ~readable THEN "returned"
               ELSE IF domain_given THEN "extract"
               ELSE "detect_domain"
    /\ UNCHANGED <<running, events, readable, domain_given, schema, num_nodes>>
    /\ UNCHANGED p_others

\* Stage 1.5: get_or_create_domain_for_text returns a domain, returns None
\* or raises
DetectDomain ==
    /\ p_pc = "detect_domain"
    /\ \E result \in {"uuid", "none", "raises"} :
          p_pc' = CASE result = "uuid" -> "fetch_schema"
                    [] result = "none" -> "extract"
                    [] result = "raises" -> "failed"
    /\ UNCHANGED <<running, events, readable, domain_given, schema, num_nodes>>
    /\ UNCHANGED p_others

\* The schema of a detected domain is fetched; a failure is logged only
\* and extract then runs without the schema
FetchSchema ==
    /\ p_pc = "fetch_schema"
    /\ schema' \in BOOLEAN
    /\ p_pc' = "extract"
    /\ UNCHANGED <<running, events, readable, domain_given, num_nodes>>
    /\ UNCHANGED p_others

\* run calls the stage it has arrived at
CallStage ==
    /\ p_pc \in StageSet
    /\ running = "none"
    /\ running' = p_pc
    /\ events' = Append(events, <<"call", p_pc>>)
    /\ UNCHANGED <<p_pc, readable, domain_given, schema, num_nodes>>
    /\ UNCHANGED p_others

\* The running stage returns and run goes on to the next one
StageReturns ==
    /\ running # "none"
    /\ \E n \in 0..MaxGraphNodes :
          /\ num_nodes' = IF running = "load_graph" THEN n ELSE num_nodes
          /\ p_pc' = StageAfter(running, num_nodes')
    /\ running' = "none"
    /\ events' = Append(events, <<"return", running>>)
    /\ UNCHANGED <<readable, domain_given, schema>>
    /\ UNCHANGED p_others

\* The running stage raises: the handler of run logs the failure
StageRaises ==
    /\ running # "none"
    /\ p_pc' = "failed"
    /\ running' = "none"
    /\ events' = Append(events, <<"raise", running>>)
    /\ UNCHANGED <<readable, domain_given, schema, num_nodes>>
    /\ UNCHANGED p_others

NextPipeline ==
    \/ ReadFile
    \/ DetectDomain
    \/ FetchSchema
    \/ CallStage
    \/ StageReturns
    \/ StageRaises

SpecPipeline == InitPipeline /\ [][NextPipeline]_vars

\* The stages called so far, in the order of their calls
RECURSIVE CalledFrom(_)
CalledFrom(i) ==
    IF i > Len(events) THEN <<>>
    ELSE IF events[i][1] = "call" THEN <<events[i][2]>> \o CalledFrom(i + 1)
    ELSE CalledFrom(i + 1)

Called == CalledFrom(1)

\* load_graph returned a graph without nodes
GraphEmpty ==
    /\ \E i \in 1..Len(events) : events[i] = <<"return", "load_graph">>
    /\ num_nodes = 0

\* C25: in a run on a readable file whose stored graph is not empty the
\* stages extract, _store_graph, load_graph, detect_communities,
\* save_communities and summarize_all are called in this order, each at most
\* once and each only after the one before it ended, exactly once each when
\* the run completes; summarize_all is not called before save_communities
\* returned, and nothing is called after a stage raised.
C25_StagesInOrder ==
    ~GraphEmpty =>
        /\ Len(Called) <= Len(Stages)
        /\ \A i \in 1..Len(Called) : Called[i] = Stages[i]
        /\ p_pc = "done" => Called = Stages
        /\ \A i \in 1..Len(events) :
              events[i] = <<"call", "summarize_all">> =>
                  \E j \in 1..(i - 1) :
                      events[j] = <<"return", "save_communities">>
        /\ \A i \in 1..Len(events) :
              /\ events[i][1] = "raise" => i = Len(events) /\ p_pc = "failed"
              /\ (events[i][1] = "call" /\ i < Len(events)) =>
                    /\ events[i + 1][1] \in {"return", "raise"}
                    /\ events[i + 1][2] = events[i][2]

\* Witness of C25: a run with a detected domain on a graph with nodes
\* completed
C25_Witness ==
    /\ p_pc = "done"
    /\ readable
    /\ ~domain_given
    /\ schema
    /\ num_nodes > 0
    /\ Len(events) = 2 * Len(Stages)

\* ------------------------------------------------------------------
\* EntityResolver._normalize_name on names with a title
\* ------------------------------------------------------------------

\* The titles the pattern of _normalize_name lists, as they are written
\* in front of a name
Titles ==
    { <<"D", "r", ".">>,
      <<"D", "i", "r", "e", "c", "t", "o", "r">>,
      <<"P", "r", "o", "f", ".">>,
      <<"M", "r", ".">>,
      <<"M", "s", ".">>,
      <<"M", "r", "s", ".">> }

NameChars == {"A", "l", "s", " "}

\* The names of at most MaxNameLen characters
Names == UNION {[1..k -> NameChars] : k \in 0..MaxNameLen}

n_others == <<s_vars, r_vars, b_vars, d_vars, p_vars, h_vars, e_vars>>

InitNormalizer ==
    /\ n_title \in Titles
    /\ n_name \in Names
    /\ n_keys = <<>>
    /\ n_pc = "start"
    /\ ResolverUnused
    /\ SummarizerUnused
    /\ BreakerUnused
    /\ DetectorUnused
    /\ PipelineUnused
    /\ HttpUnused
    /\ CacheUnused

\* _normalize_name is applied to the name with the title and to the name
\* alone
Normalize ==
    /\ n_pc = "start"
    /\ n_keys' = <<NormalizeName(n_title \o <<" ">> \o n_name),
                   NormalizeName(n_name)>>
    /\ n_pc' = "done"
    /\ UNCHANGED <<n_title, n_name>>
    /\ UNCHANGED n_others

NextNormalizer == Normalize

SpecNormalizer == InitNormalizer /\ [][NextNormalizer]_vars

\* C26: a name with one of the titles Dr., Director, Prof., Mr., Ms., Mrs.
\* in front of it normalizes to the same key as the name alone.
C26_TitleStripped == n_pc = "done" => n_keys[1] = n_keys[2]

\* ------------------------------------------------------------------
\* CircuitBreaker: state transitions under concurrent calls
\* ------------------------------------------------------------------

\* The transitions of the state diagram
DiagramTransitions ==
    { <<"CLOSED", "OPEN">>, <<"OPEN", "HALF_OPEN">>,
      <<"HALF_OPEN", "CLOSED">>, <<"HALF_OPEN", "OPEN">> }

\* C27: whatever the interleaving of concurrent calls, a step changes the
\* state of the breaker only along CLOSED -> OPEN, OPEN -> HALF_OPEN,
\* HALF_OPEN -> CLOSED or HALF_OPEN -> OPEN; in particular no call admitted
\* before the circuit opened closes it from OPEN by completing.
C27_OnlyDiagramTransitions ==
    [][\/ breaker'.state = breaker.state
       \/ <<breaker.state, breaker'.state>> \in DiagramTransitions]_vars

\* ------------------------------------------------------------------
\* HTTPClient.chat_completion, step by step
\* ------------------------------------------------------------------

h_others == <<s_vars, r_vars, b_vars, d_vars, p_vars, n_vars, e_vars>>

\* The ways a call of chat_completion ends
HttpEnds == {"response", "error_dict", "none", "raise"}

InitHttp ==
    /\ h_outcomes \in AttemptSeqs
    /\ h_stream \in BOOLEAN
    /\ h_attempt = 0
    /\ h_posts = 0
    /\ h_slept = 0
    /\ h_pc = "attempt"
    /\ ResolverUnused
    /\ SummarizerUnused
    /\ BreakerUnused
    /\ DetectorUnused
    /\ PipelineUnused
    /\ NormalizerUnused
    /\ CacheUnused

\* One turn of the loop begins: the request is sent (client.post, or the
\* stream opened by _stream_response)
Post ==
    /\ h_pc = "attempt"
    /\ h_attempt < MAX_RETRIES
    /\ h_posts' = h_posts + 1
    /\ h_pc' = "awaiting"
    /\ UNCHANGED <<h_outcomes, h_stream, h_attempt, h_slept>>
    /\ UNCHANGED h_others

\* What the last attempt's failure leads to when no attempt is left: None
\* after a timeout, the exception itself after any other error
LastFailure(failure) == IF failure = "timeout" THEN "none" ELSE "raise"

\* The request of this turn ends: the body is returned, or the exception
\* is handled by one of the two except clauses
Respond ==
    /\ h_pc = "awaiting"
    /\ LET result == h_outcomes[h_attempt + 1]
       IN h_pc' = CASE result = "ok" -> "response"
                    [] result = "not_supported" -> "error_dict"
                    [] OTHER ->
                        IF h_attempt < MAX_RETRIES - 1 THEN "sleep"
                        ELSE LastFailure(result)
    /\ UNCHANGED <<h_outcomes, h_stream, h_attempt, h_posts, h_slept>>
    /\ UNCHANGED h_others

\* asyncio.sleep(RETRY_DELAY * 2**attempt), then the next turn of the loop
Sleep ==
    /\ h_pc = "sleep"
    /\ h_slept' = h_slept + RETRY_DELAY * (2 ^ h_attempt)
    /\ h_attempt' = h_attempt + 1
    /\ h_pc' = "attempt"
    /\ UNCHANGED <<h_outcomes, h_stream, h_posts>>
    /\ UNCHANGED h_others

NextHttp ==
    \/ Post
    \/ Respond
    \/ Sleep

SpecHttp == InitHttp /\ [][NextHttp]_vars

\* C28: chat_completion sends at most MAX_RETRIES requests and, whatever
\* the attempts do, ends by returning the response body or None: it does
\* not raise.
C28_FailureByReturnValue ==
    /\ h_posts <= MAX_RETRIES
    /\ h_pc \in HttpEnds => h_pc \in {"response", "none"}

\* ------------------------------------------------------------------
\* CircuitBreaker with force_open and force_close
\* ------------------------------------------------------------------

\* force_open, lines 143-146, with time.time() = t
force_open(b, t) == [b EXCEPT !.state = "OPEN", !.last_failure_time = t]

ForceCloseKeepsCount(b) ==
    [b EXCEPT !.state = "CLOSED", !.half_open_attempts = 0]

\* force_close, lines 148-152
force_close(b) ==
    [b EXCEPT !.state = "CLOSED",
              !.failure_count = 0,
              !.half_open_attempts = 0]

ForceOpen ==
    /\ breaker' = force_open(breaker, now)
    /\ UNCHANGED <<now, c_pc, consecutive, admitted, trial_failures>>
    /\ UNCHANGED <<s_vars, r_vars, aux_vars>>

ForceClose ==
    /\ breaker' = force_close(breaker)
    /\ UNCHANGED <<now, c_pc, consecutive, admitted, trial_failures>>
    /\ UNCHANGED <<s_vars, r_vars, aux_vars>>

NextForcedBreaker ==
    \/ \E p \in Callers : Call(p)
    \/ \E p \in Callers : CallReturns(p)
    \/ \E p \in Callers : CallRaises(p)
    \/ \E p \in Callers : CallCancelled(p)
    \/ Tick
    \/ ForceOpen
    \/ ForceClose

SpecForcedBreaker == InitBreaker /\ [][NextForcedBreaker]_vars

\* C29: whatever the interleaving of call, force_open and force_close, a
\* breaker in state CLOSED has fewer counted failures than its threshold.
C29_ClosedBelowThreshold ==
    breaker.state = "CLOSED" =>
        breaker.failure_count < breaker.failure_threshold

\* Witness of C29: a breaker that tripped was closed by force_close (no
\* call ever succeeded) and counts failures again below its threshold
C29_Witness ==
    /\ breaker.state = "CLOSED"
    /\ breaker.successful_requests = 0
    /\ breaker.failed_requests > breaker.failure_threshold
    /\ breaker.failure_count >= 1

\* ------------------------------------------------------------------
\* EmbeddingCache
\* ------------------------------------------------------------------

Texts == 1..NumTexts

\* EmbeddingCache._get_key: the SHA-256 digest of the text; distinct texts
\* have distinct digests
_get_key(text) == <<"sha256", text>>

\* set: the most entries one eviction removes, and the part of the cache it
\* removes
EvictAtMost == 100
EvictDivisor == 4

Min(a, b) == IF a <= b THEN a ELSE b

\* set, lines 30-35: the keys left after the eviction of a full cache
Evicted(keys, limit) ==
    IF Len(keys) >= limit
    THEN LET items_to_remove == Min(EvictAtMost, Len(keys) \div EvictDivisor)
         IN  SubSeq(keys, items_to_remove + 1, Len(keys))
    ELSE keys

\* set, line 37: a new key goes to the end, a known key keeps its place
Stored(keys, key) ==
    IF \E i \in 1..Len(keys) : keys[i] = key THEN keys ELSE Append(keys, key)

e_others == <<s_vars, r_vars, b_vars, d_vars, p_vars, n_vars, h_vars>>

InitCache ==
    /\ cache = <<>>
    /\ max_size \in 1..MaxCacheSize
    /\ last_get = "none"
    /\ ResolverUnused
    /\ SummarizerUnused
    /\ BreakerUnused
    /\ DetectorUnused
    /\ PipelineUnused
    /\ NormalizerUnused
    /\ HttpUnused

\* EmbeddingCache.set
CacheSet(text) ==
    /\ cache' = Stored(Evicted(cache, max_size), _get_key(text))
    /\ UNCHANGED <<max_size, last_get>>
    /\ UNCHANGED e_others

\* EmbeddingCache.get
CacheGet(text) ==
    /\ last_get' = IF \E i \in 1..Len(cache) : cache[i] = _get_key(text)
                   THEN "embedding"
                   ELSE "None"
    /\ UNCHANGED <<cache, max_size>>
    /\ UNCHANGED e_others

\* EmbeddingCache.clear
CacheClear ==
    /\ cache' = <<>>
    /\ UNCHANGED <<max_size, last_get>>
    /\ UNCHANGED e_others

NextCache ==
    \/ \E text \in Texts : CacheSet(text)
    \/ \E text \in Texts : CacheGet(text)
    \/ CacheClear

SpecCache == InitCache /\ [][NextCache]_vars

\* C30: whatever the sequence of set, get and clear, the cache never holds
\* more than max_size entries.
C30_SizeBounded == Len(cache) <= max_size

====
